---- MODULE Spec2Model ----
(***************************************************************************)
(* Pickomino solver (src/src/solver.ts) and the turn handlers of the App   *)
(* (src/src/App.tsx).                                                      *)
(*                                                                         *)
(* Numbers.  The solver computes with IEEE doubles.  Every value it forms  *)
(* is a sum of products of multinomial weights ways / 6^n with tile points *)
(* or 1.0, i.e. a rational whose denominator is a power of 6.  The model   *)
(* keeps these values exactly, as records [num, exp] standing for          *)
(* num / 6^exp in lowest terms with respect to 6; rounding of the doubles  *)
(* is not modelled.                                                        *)
(*                                                                         *)
(* Bit masks.  usedMask is an integer whose bit f-1 stands for face f; the *)
(* model keeps it as the set of faces whose bit is set.                    *)
(***************************************************************************)
EXTENDS Integers, Sequences, FiniteSets, Bags, TLC

\* ---------------------------------------------------------------- constants
\* the turn is played with eight dice (8 - banked dice, solver.ts:114)
TotalDice == 8
\* number of faces of a die (genCountVectors(n, 6), loops 1..6)
NumFaces == 6
\* the worm face (1 << (6 - 1))
WormFace == 6
\* bestFace = null when no face is legal
NoFace == 0

Faces == 1..NumFaces

ANY_TILE == "any_tile"
HIGHEST_SCORE == "highest_score"
SolverMode == {ANY_TILE, HIGHEST_SCORE}

\* ------------------------------------------------------------------- bounds
\* dice still in hand in the states the model explores
MaxRoll == 3

\* ---------------------------------------------------------- exact "doubles"
RECURSIVE QNorm(_, _)
QNorm(num, exp) ==
    IF exp > 0 /\ num % 6 = 0 THEN QNorm(num \div 6, exp - 1)
    ELSE [num |-> num, exp |-> exp]

QInt(k) == [num |-> k, exp |-> 0]

QMaxExp(a, b) == IF a.exp >= b.exp THEN a.exp ELSE b.exp

\* numerator of a over the denominator 6^e, e >= a.exp
QNumAt(a, e) == a.num * 6^(e - a.exp)

QAdd(a, b) == QNorm(QNumAt(a, QMaxExp(a, b)) + QNumAt(b, QMaxExp(a, b)), QMaxExp(a, b))

QMul(a, b) == QNorm(a.num * b.num, a.exp + b.exp)

\* a / 6^n
QDivPow6(a, n) == QNorm(a.num, a.exp + n)

QLess(a, b) == QNumAt(a, QMaxExp(a, b)) < QNumAt(b, QMaxExp(a, b))

QLeq(a, b) == ~QLess(b, a)

\* ---------------------------------------------------------------- solver.ts
Tile(v, p, o) == [value |-> v, pts |-> p, canOvershoot |-> o]

\* fact(n): fills the module-level table up to index n and reads entry n.
\* JS index i is position i+1 of the sequence.
RECURSIVE factFill(_, _)
factFill(cache, n) ==
    IF Len(cache) > n THEN cache
    ELSE factFill(Append(cache, cache[Len(cache)] * Len(cache)), n)

\* fact reading the last entry of the table instead of entry n
factLast(cache, n) ==
    LET filled == factFill(cache, n)
    IN [val |-> filled[Len(filled)], cache |-> filled]

fact(cache, n) ==
    LET filled == factFill(cache, n)
    IN [val |-> filled[n + 1], cache |-> filled]

buildDefaultTargets ==
    [i \in 1..16 |->
        LET v == 20 + i
        IN Tile(v, IF v >= 33 THEN 4 ELSE IF v >= 29 THEN 3 ELSE IF v >= 25 THEN 2 ELSE 1, TRUE)]

\* the worm counted as a six
faceValueRaw(face) == face

faceValue(face) == IF face = 6 THEN 5 ELSE face

RECURSIVE scoreOfKeys(_, _)
scoreOfKeys(usedCnt, keys) ==
    IF keys = {} THEN 0
    ELSE LET f == CHOOSE k \in keys : TRUE
         IN faceValue(f) * usedCnt[f] + scoreOfKeys(usedCnt, keys \ {f})

computeCurrentScore(usedCnt) == scoreOfKeys(usedCnt, DOMAIN usedCnt)

\* a comparator that looks at the threshold only
tileCompareValueOnly(a, b) == b.value - a.value

\* comparator of elig.sort: negative when a sorts before b
tileCompare(a, b) == IF b.value - a.value # 0 THEN b.value - a.value ELSE b.pts - a.pts

\* Array.prototype.sort is stable: t goes behind every element that does not
\* sort after it
RECURSIVE insertTile(_, _)
insertTile(sorted, t) ==
    IF sorted = <<>> THEN <<t>>
    ELSE IF tileCompare(Head(sorted), t) <= 0 THEN <<Head(sorted)>> \o insertTile(Tail(sorted), t)
    ELSE <<t>> \o sorted

\* front, the sorted elig[1..k-1], is bound as a value: it is evaluated once
RECURSIVE sortTiles(_, _)
sortTiles(elig, k) ==
    IF k = 0 THEN <<>>
    ELSE CHOOSE r \in {insertTile(front, elig[k]) : front \in {sortTiles(elig, k - 1)}} : TRUE

\* every tile taken as an exact-match tile
tileEligibleExact(score, t) == score = t.value

tileEligible(score, t) ==
    IF t.canOvershoot THEN score >= t.value ELSE score = t.value

findEligibleTiles(score, tgts) ==
    LET elig == SelectSeq(tgts, LAMBDA t : tileEligible(score, t))
    IN sortTiles(elig, Len(elig))

\* the array passed as targets after the call: only the local elig is sorted
findEligibleTilesTargets(score, tgts) == tgts

\* isSuccess with the worm test left out
isSuccessNoGate(score, usedMask, tgts) ==
    Len(findEligibleTiles(score, tgts)) > 0

isSuccess(score, usedMask, tgts) ==
    IF WormFace \notin usedMask THEN FALSE
    ELSE Len(findEligibleTiles(score, tgts)) > 0

\* the points of the last eligible tile instead of the first
getBestTileValueLast(score, usedMask, tgts) ==
    IF WormFace \notin usedMask THEN 0
    ELSE LET elig == findEligibleTiles(score, tgts)
         IN IF Len(elig) = 0 THEN 0 ELSE elig[Len(elig)].pts

getBestTileValue(score, usedMask, tgts) ==
    IF WormFace \notin usedMask THEN 0
    ELSE LET elig == findEligibleTiles(score, tgts)
         IN IF Len(elig) = 0 THEN 0 ELSE elig[1].pts

\* a payoff of the score itself in HIGHEST_SCORE mode
terminalValueScore(mode, score, usedMask, tgts) ==
    IF mode = ANY_TILE THEN QInt(1) ELSE QInt(score)

\* terminal payoff of a successful state
terminalValue(mode, score, usedMask, tgts) ==
    IF mode = ANY_TILE THEN QInt(1) ELSE QInt(getBestTileValue(score, usedMask, tgts))

\* genCountVectors: inner(pos, remaining) with out as it stands, positions 0-based
RECURSIVE inner(_, _, _, _)
RECURSIVE innerLoop(_, _, _, _, _)
inner(faces, out, pos, remaining) ==
    IF pos = faces - 1 THEN << [out EXCEPT ![pos + 1] = remaining] >>
    ELSE innerLoop(faces, out, pos, remaining, 0)

\* the loop for (k = 0; k < remaining; k++)
RECURSIVE innerLoopShort(_, _, _, _, _)
innerLoopShort(faces, out, pos, remaining, k) ==
    IF k >= remaining THEN <<>>
    ELSE inner(faces, [out EXCEPT ![pos + 1] = k], pos + 1, remaining - k)
         \o innerLoopShort(faces, out, pos, remaining, k + 1)

\* lines 161-164: for (k = 0; k <= remaining; k++)
innerLoop(faces, out, pos, remaining, k) ==
    IF k > remaining THEN <<>>
    ELSE inner(faces, [out EXCEPT ![pos + 1] = k], pos + 1, remaining - k)
         \o innerLoop(faces, out, pos, remaining, k + 1)

genCountVectors(n, faces) == inner(faces, [i \in 1..faces |-> 0], 0, n)

\* lines 198-201: ways = fact(n) / fact(counts[0]) / ... / fact(counts[5]).
\* fact(n) is called first and fills the table up to n; every counts[f] is at
\* most n, so the later calls only read it.  Returns [val, cache].
ways(cache, n, counts) ==
    LET c == fact(cache, n).cache
    IN [val |-> (((((fact(cache, n).val \div fact(c, counts[1]).val) \div fact(c, counts[2]).val)
                     \div fact(c, counts[3]).val) \div fact(c, counts[4]).val)
                     \div fact(c, counts[5]).val) \div fact(c, counts[6]).val,
        cache |-> fact(c, counts[6]).cache]

\* a memo key that leaves the used mask out
memoKeyNoMask(remainingDice, score, usedMask, mode) == <<remainingDice, score, mode>>

memoKey(remainingDice, score, usedMask, mode) == <<remainingDice, score, usedMask, mode>>

\* st = [memo, cache, paid, picks]: probMemo, factorialCache, the record of the
\* picks (newScore, newUsedMask) that were given the terminal payoff, and the
\* record of the picks (usedMask, face) that were evaluated
RECURSIVE probSuccess(_, _, _, _, _, _)
RECURSIVE pickLoop(_, _, _, _, _, _, _, _, _)
RECURSIVE vectorLoop(_, _, _, _, _, _, _, _, _)

\* the test for no dice left made before the test for success
pickValueZeroFirst(st, mode, tgts, newRemaining, newScore, newUsedMask) ==
    IF newRemaining = 0 THEN [st |-> st, val |-> QInt(0)]
    ELSE IF isSuccess(newScore, newUsedMask, tgts)
    THEN [st |-> [st EXCEPT !.paid = @ \cup {<<newScore, newUsedMask>>}],
          val |-> terminalValue(mode, newScore, newUsedMask, tgts)]
    ELSE probSuccess(st, mode, tgts, newRemaining, newScore, newUsedMask)

\* a pick that takes the last dice paid as a success
pickValueLastDiceWins(st, mode, tgts, newRemaining, newScore, newUsedMask) ==
    IF isSuccess(newScore, newUsedMask, tgts)
    THEN [st |-> [st EXCEPT !.paid = @ \cup {<<newScore, newUsedMask>>}],
          val |-> terminalValue(mode, newScore, newUsedMask, tgts)]
    ELSE IF newRemaining = 0 THEN [st |-> st, val |-> QInt(1)]
    ELSE probSuccess(st, mode, tgts, newRemaining, newScore, newUsedMask)

\* lines 219-225 (and 273-279, the same text at the top level): the value of
\* the state a pick leads to, [st, val]
pickValue(st, mode, tgts, newRemaining, newScore, newUsedMask) ==
    IF isSuccess(newScore, newUsedMask, tgts)
    THEN [st |-> [st EXCEPT !.paid = @ \cup {<<newScore, newUsedMask>>}],
          val |-> terminalValue(mode, newScore, newUsedMask, tgts)]
    ELSE IF newRemaining = 0 THEN [st |-> st, val |-> QInt(0)]
    ELSE probSuccess(st, mode, tgts, newRemaining, newScore, newUsedMask)

\* lines 227-233: keep the larger value (both modes run the same comparison)
pickBest(acc, r) ==
    [st |-> r.st, best |-> IF QLess(acc.best, r.val) THEN r.val ELSE acc.best]

\* the pick loop without the test of usedMask
legalFacesAnyUsed(counts, usedMask) ==
    SelectSeq([f \in 1..NumFaces |-> f], LAMBDA f : counts[f] # 0)

\* lines 208-211: the faces the loop does not skip, in ascending order
legalFaces(counts, usedMask) ==
    SelectSeq([f \in 1..NumFaces |-> f], LAMBDA f : counts[f] # 0 /\ f \notin usedMask)

\* lines 212-233, one legal face: acc = [st, best]
pickStep(acc, mode, tgts, n, score, usedMask, counts, face) ==
    pickBest(acc, pickValue([acc.st EXCEPT !.picks = @ \cup {<<usedMask, face>>}],
                            mode, tgts, n - counts[face],
                            score + faceValue(face) * counts[face], usedMask \cup {face}))

\* line 207: the legal faces legal[k..] in order.  The test of acc.best is
\* never true: it has the step before evaluated first, as in the code.
pickLoop(acc, mode, tgts, n, score, usedMask, counts, legal, k) ==
    IF acc.best.exp < 0 \/ k > Len(legal) THEN acc
    ELSE pickLoop(pickStep(acc, mode, tgts, n, score, usedMask, counts, legal[k]),
                  mode, tgts, n, score, usedMask, counts, legal, k + 1)

\* lines 236-241: p = [st, best] is what the picks of this vector gave
vectorSum(acc, pRoll, anyLegal, p) ==
    [st |-> p.st,
     totalValue |-> IF anyLegal THEN QAdd(acc.totalValue, QMul(pRoll, p.best))
                    ELSE acc.totalValue]

\* pRoll taken as the number of ways, not divided by totalOutcomes
vectorPicksUnweighted(acc, w, mode, tgts, n, score, usedMask, counts) ==
    vectorSum(acc, QInt(w.val), legalFaces(counts, usedMask) # <<>>,
              pickLoop([st |-> [acc.st EXCEPT !.cache = w.cache], best |-> QInt(0)],
                       mode, tgts, n, score, usedMask, counts,
                       legalFaces(counts, usedMask), 1))

\* lines 202-234: w = [val, cache] is ways and the factorial table after it
vectorPicks(acc, w, mode, tgts, n, score, usedMask, counts) ==
    vectorSum(acc, QDivPow6(QInt(w.val), n), legalFaces(counts, usedMask) # <<>>,
              pickLoop([st |-> [acc.st EXCEPT !.cache = w.cache], best |-> QInt(0)],
                       mode, tgts, n, score, usedMask, counts,
                       legalFaces(counts, usedMask), 1))

\* lines 197-241, one count vector: acc = [st, totalValue]
vectorStep(acc, mode, tgts, n, score, usedMask, counts) ==
    vectorPicks(acc, ways(acc.st.cache, n, counts), mode, tgts, n, score, usedMask, counts)

\* line 196: the vectors vecs[lo..hi] in order.  The range is halved to keep
\* the evaluation shallow; the test of acc.totalValue is never true and has
\* the vectors before lo evaluated first.
vectorLoop(acc, mode, tgts, n, score, usedMask, vecs, lo, hi) ==
    IF acc.totalValue.exp < 0 \/ lo > hi THEN acc
    ELSE IF lo = hi THEN vectorStep(acc, mode, tgts, n, score, usedMask, vecs[lo])
    ELSE vectorLoop(vectorLoop(acc, mode, tgts, n, score, usedMask, vecs, lo, (lo + hi) \div 2),
                    mode, tgts, n, score, usedMask, vecs, (lo + hi) \div 2 + 1, hi)

\* lines 244-245: v = [st, totalValue] after the last vector
probStore(key, v) ==
    [st |-> [v.st EXCEPT !.memo = (key :> v.totalValue) @@ @], val |-> v.totalValue]

\* lines 174-246: returns [st, val]
probSuccess(st, mode, tgts, remainingDice, score, usedMask) ==
    IF memoKey(remainingDice, score, usedMask, mode) \in DOMAIN st.memo
    THEN [st |-> st, val |-> st.memo[memoKey(remainingDice, score, usedMask, mode)]]
    ELSE IF isSuccess(score, usedMask, tgts)
    THEN [st |-> [st EXCEPT !.memo = (memoKey(remainingDice, score, usedMask, mode)
                                       :> terminalValue(mode, score, usedMask, tgts)) @@ @],
          val |-> terminalValue(mode, score, usedMask, tgts)]
    ELSE IF remainingDice = 0
    THEN [st |-> [st EXCEPT !.memo = (memoKey(remainingDice, score, usedMask, mode)
                                       :> QInt(0)) @@ @],
          val |-> QInt(0)]
    ELSE probStore(memoKey(remainingDice, score, usedMask, mode),
                   vectorLoop([st |-> st, totalValue |-> QInt(0)], mode, tgts,
                              remainingDice, score, usedMask,
                              genCountVectors(remainingDice, NumFaces),
                              1, Len(genCountVectors(remainingDice, NumFaces))))

\* lines 192-202: the outcomes of n dice as probSuccess runs through them,
\* each with its number of ways, and totalOutcomes = Math.pow(6, n)
outcomesOf(cache, n, vecs) ==
    [vectors |-> vecs,
     ways |-> [i \in 1..Len(vecs) |-> ways(cache, n, vecs[i]).val],
     totalOutcomes |-> 6 ^ n,
     cache |-> fact(cache, n).cache]

enumerateOutcomes(cache, n) == outcomesOf(cache, n, genCountVectors(n, NumFaces))

\* ---- probSuccess in ANY_TILE mode, computed on classes of numbers.  The
\* numbers of probSuccess are replaced by their class: Zero for 0, One for 1,
\* Between for a number strictly between.  The maximum over picks is the
\* maximum of the classes; the sum of pRoll * best over the outcomes, whose
\* weights are positive and sum to 1, is 0 when every best is 0, 1 when
\* every best is 1, and strictly between otherwise.
Zero == 0
Between == 1
One == 2

RECURSIVE probSuccessClass(_, _, _, _, _)
RECURSIVE pickLoopClass(_, _, _, _, _, _, _, _)
RECURSIVE vectorLoopClass(_, _, _, _, _, _, _, _)

\* lines 219-225 in ANY_TILE mode: [memo, val]
pickValueClass(memo, tgts, newRemaining, newScore, newUsedMask) ==
    IF isSuccess(newScore, newUsedMask, tgts) THEN [memo |-> memo, val |-> One]
    ELSE IF newRemaining = 0 THEN [memo |-> memo, val |-> Zero]
    ELSE probSuccessClass(memo, tgts, newRemaining, newScore, newUsedMask)

\* lines 227-233: r = [memo, val] is the value of the pick
pickBestClass(acc, r) ==
    [memo |-> r.memo, best |-> IF acc.best < r.val THEN r.val ELSE acc.best]

\* line 207: the legal faces legal[k..] in order, acc = [memo, best]
pickLoopClass(acc, tgts, n, score, usedMask, counts, legal, k) ==
    IF acc.best < Zero \/ k > Len(legal) THEN acc
    ELSE pickLoopClass(
            pickBestClass(acc, pickValueClass(acc.memo, tgts, n - counts[legal[k]],
                                              score + faceValue(legal[k]) * counts[legal[k]],
                                              usedMask \cup {legal[k]})),
            tgts, n, score, usedMask, counts, legal, k + 1)

\* the sum taken as the largest term
vectorSumClassMax(acc, p) ==
    [memo |-> p.memo,
     lo |-> IF acc.hi < p.best THEN p.best ELSE acc.hi,
     hi |-> IF acc.hi < p.best THEN p.best ELSE acc.hi]

\* lines 236-241: p = [memo, best] is what the picks of this outcome gave (0
\* when it has no legal face); lo and hi are the least and the largest best
\* value of the outcomes so far
vectorSumClass(acc, p) ==
    [memo |-> p.memo,
     lo |-> IF p.best < acc.lo THEN p.best ELSE acc.lo,
     hi |-> IF acc.hi < p.best THEN p.best ELSE acc.hi]

\* lines 197-241, one count vector
vectorStepClass(acc, tgts, n, score, usedMask, counts) ==
    vectorSumClass(acc, pickLoopClass([memo |-> acc.memo, best |-> Zero], tgts, n, score,
                                      usedMask, counts, legalFaces(counts, usedMask), 1))

\* line 196: the vectors vecs[lo..hi] in order, the range halved as in
\* vectorLoop
vectorLoopClass(acc, tgts, n, score, usedMask, vecs, lo, hi) ==
    IF acc.hi < Zero \/ lo > hi THEN acc
    ELSE IF lo = hi THEN vectorStepClass(acc, tgts, n, score, usedMask, vecs[lo])
    ELSE vectorLoopClass(vectorLoopClass(acc, tgts, n, score, usedMask, vecs, lo, (lo + hi) \div 2),
                         tgts, n, score, usedMask, vecs, (lo + hi) \div 2 + 1, hi)

\* lines 244-245: v = [memo, lo, hi] after the last vector
probStoreClass(key, v) ==
    [memo |-> (key :> (IF v.hi = Zero THEN Zero ELSE IF v.lo = One THEN One ELSE Between))
              @@ v.memo,
     val |-> IF v.hi = Zero THEN Zero ELSE IF v.lo = One THEN One ELSE Between]

\* lines 174-246 in ANY_TILE mode: returns [memo, val]
probSuccessClass(memo, tgts, remainingDice, score, usedMask) ==
    IF memoKey(remainingDice, score, usedMask, ANY_TILE) \in DOMAIN memo
    THEN [memo |-> memo, val |-> memo[memoKey(remainingDice, score, usedMask, ANY_TILE)]]
    ELSE IF isSuccess(score, usedMask, tgts)
    THEN [memo |-> (memoKey(remainingDice, score, usedMask, ANY_TILE) :> One) @@ memo,
          val |-> One]
    ELSE IF remainingDice = 0
    THEN [memo |-> (memoKey(remainingDice, score, usedMask, ANY_TILE) :> Zero) @@ memo,
          val |-> Zero]
    ELSE probStoreClass(memoKey(remainingDice, score, usedMask, ANY_TILE),
                        vectorLoopClass([memo |-> memo, lo |-> One, hi |-> Zero], tgts,
                                        remainingDice, score, usedMask,
                                        genCountVectors(remainingDice, NumFaces),
                                        1, Len(genCountVectors(remainingDice, NumFaces))))

\* lines 101-105
rollCounter(rolls, f) == Cardinality({i \in DOMAIN rolls : rolls[i] = f})

\* lines 108-111
baseUsedMask(usedCnt) == {f \in Faces : f \in DOMAIN usedCnt /\ usedCnt[f] > 0}

RECURSIVE sumOfKeys(_, _)
sumOfKeys(usedCnt, keys) ==
    IF keys = {} THEN 0
    ELSE LET f == CHOOSE k \in keys : TRUE
         IN usedCnt[f] + sumOfKeys(usedCnt, keys \ {f})

\* Object.values(usedCounts).reduce((a, b) => a + (b || 0), 0)
usedDice(usedCnt) == sumOfKeys(usedCnt, DOMAIN usedCnt)

\* line 114
nDiceNow(usedCnt) == TotalDice - usedDice(usedCnt)

\* lines 282-288
choiceData(mode, count, newScore, newRemaining, value) ==
    IF mode = ANY_TILE
    THEN [count |-> count, immediateScore |-> newScore, remainingDice |-> newRemaining,
          successProb |-> value]
    ELSE [count |-> count, immediateScore |-> newScore, remainingDice |-> newRemaining,
          successProb |-> IF QLess(QInt(0), value) THEN QInt(1) ELSE QInt(0),
          expectedValue |-> value]

\* the comparison value >= bestValue in place of value > bestValue
solveRecordLast(acc, mode, f, count, newScore, newRemaining, r) ==
    [st |-> r.st,
     probs |-> (f :> r.val) @@ acc.probs,
     choices |-> (f :> choiceData(mode, count, newScore, newRemaining, r.val)) @@ acc.choices,
     bestFace |-> IF QLeq(acc.bestValue, r.val) THEN f ELSE acc.bestFace,
     bestValue |-> IF QLeq(acc.bestValue, r.val) THEN r.val ELSE acc.bestValue]

\* lines 281-300: r = [st, val] is the value of picking f
solveRecord(acc, mode, f, count, newScore, newRemaining, r) ==
    [st |-> r.st,
     probs |-> (f :> r.val) @@ acc.probs,
     choices |-> (f :> choiceData(mode, count, newScore, newRemaining, r.val)) @@ acc.choices,
     bestFace |-> IF QLess(acc.bestValue, r.val) THEN f ELSE acc.bestFace,
     bestValue |-> IF QLess(acc.bestValue, r.val) THEN r.val ELSE acc.bestValue]

\* lines 268-300, one legal face: acc = [st, probs, choices, bestFace, bestValue]
solveStep(acc, rolls, tgts, usedCnt, mode, f) ==
    solveRecord(acc, mode, f, rollCounter(rolls, f),
                computeCurrentScore(usedCnt) + faceValue(f) * rollCounter(rolls, f),
                nDiceNow(usedCnt) - rollCounter(rolls, f),
                pickValue([acc.st EXCEPT !.picks = @ \cup {<<baseUsedMask(usedCnt), f>>}],
                          mode, tgts,
                          nDiceNow(usedCnt) - rollCounter(rolls, f),
                          computeCurrentScore(usedCnt) + faceValue(f) * rollCounter(rolls, f),
                          baseUsedMask(usedCnt) \cup {f}))

\* lines 259-301
RECURSIVE solveLoop(_, _, _, _, _, _)

\* the face loop without the test of baseUsedMask
solveLoopAnyUsed(acc, rolls, tgts, usedCnt, mode, f) ==
    IF f > NumFaces THEN acc
    ELSE IF rollCounter(rolls, f) = 0
    THEN solveLoop(acc, rolls, tgts, usedCnt, mode, f + 1)
    ELSE solveLoop(solveStep(acc, rolls, tgts, usedCnt, mode, f),
                   rolls, tgts, usedCnt, mode, f + 1)

solveLoop(acc, rolls, tgts, usedCnt, mode, f) ==
    IF f > NumFaces THEN acc
    ELSE IF rollCounter(rolls, f) = 0 \/ f \in baseUsedMask(usedCnt)
    THEN solveLoop(acc, rolls, tgts, usedCnt, mode, f + 1)
    ELSE solveLoop(solveStep(acc, rolls, tgts, usedCnt, mode, f),
                   rolls, tgts, usedCnt, mode, f + 1)

\* an empty Record<number, ...>
EmptyRecord == [f \in {} |-> 0]

\* lines 303-304: a is the state of the loop at its end
solveReturn(a, mode) ==
    [out |-> [bestFace |-> a.bestFace, probs |-> a.probs, choices |-> a.choices,
              mode |-> mode],
     cache |-> a.st.cache, memo |-> a.st.memo, paid |-> a.st.paid, picks |-> a.st.picks]

\* solve(rolls, targets, usedCounts, mode) entered with the factorial table as
\* it stands: the SolverResult (without the report text), the factorial table
\* on return, and the memo table and the records of this call
solve(cache, rolls, tgts, usedCnt, mode) ==
    solveReturn(solveLoop([st |-> [memo |-> EmptyRecord, cache |-> cache, paid |-> {}, picks |-> {}],
                           probs |-> EmptyRecord, choices |-> EmptyRecord,
                           bestFace |-> NoFace, bestValue |-> QInt(-1)],
                          rolls, tgts, usedCnt, mode, 1),
                mode)

\* lines 323 and 334: Math.abs(prob - bestValue) < 0.001
withinTolerance(a, b) ==
    LET d == QNumAt(a, QMaxExp(a, b)) - QNumAt(b, QMaxExp(a, b))
    IN 1000 * (IF d < 0 THEN -d ELSE d) < 6 ^ QMaxExp(a, b)

\* lines 320-328 and 331-339: Object.entries lists the faces of probs in
\* ascending order
bestTilesOf(out) ==
    IF out.bestFace = NoFace THEN <<>>
    ELSE SelectSeq([f \in 1..NumFaces |-> f],
                   LAMBDA f : /\ f \in DOMAIN out.probs
                              /\ withinTolerance(out.probs[f], out.probs[out.bestFace]))

\* new Set([...]): the first occurrence of each entry, in order
RECURSIVE setOrder(_)
setOrder(q) ==
    IF q = <<>> THEN <<>>
    ELSE LET front == setOrder(SubSeq(q, 1, Len(q) - 1))
         IN IF \E i \in DOMAIN front : front[i] = q[Len(q)] THEN front
            ELSE Append(front, q[Len(q)])

\* combined.sort((a, b) => a - b)
RECURSIVE insertNumber(_, _)
insertNumber(sorted, x) ==
    IF sorted = <<>> THEN <<x>>
    ELSE IF Head(sorted) - x <= 0 THEN <<Head(sorted)>> \o insertNumber(Tail(sorted), x)
    ELSE <<x>> \o sorted

RECURSIVE sortNumbers(_, _)
sortNumbers(q, k) ==
    IF k = 0 THEN <<>> ELSE insertNumber(sortNumbers(q, k - 1), q[k])

\* the two lists put one after the other
combinedConcat(anyTileBest, highestScoreBest) == anyTileBest \o highestScoreBest

\* lines 342-343 and 351
combined(anyTileBest, highestScoreBest) ==
    sortNumbers(setOrder(anyTileBest \o highestScoreBest),
                Len(setOrder(anyTileBest \o highestScoreBest)))

\* lines 345-353: a and h are what the two solve calls returned
multiReturn(a, h) ==
    [out |-> [anyTile |-> a.out, highestScore |-> h.out,
              bestTiles |-> [anyTile |-> bestTilesOf(a.out),
                             highestScore |-> bestTilesOf(h.out),
                             combined |-> combined(bestTilesOf(a.out), bestTilesOf(h.out))]],
     cache |-> h.cache]

\* line 312: the second call finds the factorial table as the first left it
multiSecond(a, rolls, tgts, usedCnt) ==
    multiReturn(a, solve(a.cache, rolls, tgts, usedCnt, HIGHEST_SCORE))

\* lines 310-354
solveMultiMode(cache, rolls, tgts, usedCnt) ==
    multiSecond(solve(cache, rolls, tgts, usedCnt, ANY_TILE), rolls, tgts, usedCnt)

\* ------------------------------------------------------------------ App.tsx
VARIABLES
    dice,            \* App: the dice input slots, 0 = unset
    usedCounts,      \* App: face -> number of dice banked this turn
    targets,         \* App: the tile pool
    solverOut,       \* the result of the last solve call on the state as it is
    callTrace,       \* memo table and records of that call, factorial table at its entry
    factorialCache,  \* solver.ts: the module-level factorial table
    fnArgs,          \* arguments of a direct call of a solver function
    fnOut            \* what that call returned

vars == <<dice, usedCounts, targets, solverOut, callTrace, factorialCache, fnArgs, fnOut>>

NoResult == [mode |-> "none"]
NoTrace == [memo |-> EmptyRecord, paid |-> {}, picks |-> {}, entryCache |-> <<>>]
NoCall == [fn |-> "none"]

\* Array(n).fill(0)
zeros(n) == [i \in 1..n |-> 0]

\* line 52: dice.filter(d => d !== 0)
roll(d) == SelectSeq(d, LAMBDA x : x # 0)

\* the turns the model explores: one face banked with MaxRoll dice left, once
\* without the worm (five 1s: score 5) and once with it (five worms: score 25),
\* each with a pool in reach of its score
PoolA == << Tile(10, 1, TRUE), Tile(15, 4, TRUE) >>
PoolB == << Tile(28, 2, TRUE), Tile(30, 3, FALSE) >>
InitTurns ==
    { [used |-> (1 :> (TotalDice - MaxRoll)), pool |-> PoolA],
      [used |-> (WormFace :> (TotalDice - MaxRoll)), pool |-> PoolB] }

\* the faces entered into the dice slots (0 clears a slot)
DieFaces == {1, 3, WormFace}

\* the dice are entered in non-increasing order (solve and acceptPick read
\* them through per-face counts only)
Canonical(d) == \A i \in 1..(Len(d) - 1) : d[i] >= d[i + 1]

Init ==
    /\ \E t \in InitTurns : usedCounts = t.used /\ targets = t.pool
    /\ dice = zeros(nDiceNow(usedCounts))
    /\ solverOut = NoResult
    /\ callTrace = NoTrace
    /\ factorialCache = <<1>>
    /\ fnArgs = NoCall
    /\ fnOut = NoCall

\* lines 58-64
setDieValue(idx, v) ==
    /\ idx \in DOMAIN dice
    /\ dice' = [dice EXCEPT ![idx] = v]
    /\ Canonical(dice')
    /\ solverOut' = NoResult
    /\ callTrace' = NoTrace
    /\ UNCHANGED <<usedCounts, targets, factorialCache, fnArgs, fnOut>>

\* usedCounts[face] as a JS truth value
usedTruthy(face) == face \in DOMAIN usedCounts /\ usedCounts[face] # 0

\* lines 66-76.  With more than eight dice in all, Array(remainingDiceCount)
\* throws a RangeError at line 75: the update of usedCounts, queued at line
\* 70, is applied, and setDice is not reached.
acceptPick(face) ==
    LET cntInRoll == rollCounter(roll(dice), face)
        totalUsedDice == usedDice(usedCounts) + cntInRoll
        remainingDiceCount == TotalDice - totalUsedDice
    IN IF cntInRoll = 0 \/ usedTruthy(face)
       THEN UNCHANGED vars
       ELSE /\ usedCounts' = (face :> ((IF face \in DOMAIN usedCounts THEN usedCounts[face] ELSE 0)
                                       + cntInRoll)) @@ usedCounts
            /\ dice' = IF remainingDiceCount >= 0 THEN zeros(remainingDiceCount) ELSE dice
            /\ solverOut' = NoResult
            /\ callTrace' = NoTrace
            /\ UNCHANGED <<targets, factorialCache, fnArgs, fnOut>>

\* lines 88-98, the pool's part: a tile of the main pool goes to a player
moveTileToPlayer(tile) ==
    /\ targets' = SelectSeq(targets, LAMBDA t : t.value # tile.value)
    /\ solverOut' = NoResult
    /\ callTrace' = NoTrace
    /\ UNCHANGED <<dice, usedCounts, factorialCache, fnArgs, fnOut>>

\* r is what solve returned
SolveReturned(r) ==
    /\ solverOut' = r.out
    /\ callTrace' = [memo |-> r.memo, paid |-> r.paid, picks |-> r.picks,
                     entryCache |-> factorialCache]
    /\ factorialCache' = r.cache

\* a call solve(roll, targets, usedCounts, mode) on the state as it is: the
\* render calls it in ANY_TILE mode (App.tsx line 53), solveMultiMode in both
\* modes (solver.ts lines 311-312)
Solve(mode) ==
    /\ nDiceNow(usedCounts) <= MaxRoll
    /\ SolveReturned(solve(factorialCache, roll(dice), targets, usedCounts, mode))
    /\ UNCHANGED <<dice, usedCounts, targets, fnArgs, fnOut>>

Next ==
    \/ \E idx \in 1..TotalDice, v \in {0} \cup DieFaces : setDieValue(idx, v)
    \/ \E face \in Faces : acceptPick(face)
    \/ \E i \in DOMAIN targets : moveTileToPlayer(targets[i])
    \/ \E mode \in SolverMode : Solve(mode)

Spec == Init /\ [][Next]_vars

\* ------------------------------------------- the turn, from the first roll,
\* with the end of the turn and the reload of the page

\* lines 14-30: the state of a fresh mount
InitTurn ==
    /\ dice = zeros(TotalDice)
    /\ usedCounts = EmptyRecord
    /\ targets = buildDefaultTargets
    /\ solverOut = NoResult
    /\ callTrace = NoTrace
    /\ factorialCache = <<1>>
    /\ fnArgs = NoCall
    /\ fnOut = NoCall

\* lines 78-82
finishTurn ==
    /\ usedCounts' = EmptyRecord
    /\ dice' = zeros(TotalDice)
    /\ solverOut' = NoResult
    /\ callTrace' = NoTrace
    /\ UNCHANGED <<targets, factorialCache, fnArgs, fnOut>>

\* the page is loaded again.  The state is built anew (lines 14-30: eight
\* empty dice slots); the effect of lines 33-46 then restores targets and
\* usedCounts from localStorage, where the effect of lines 47-49 wrote them
\* at their last change, and does not restore the dice.
load ==
    /\ dice' = zeros(TotalDice)
    /\ usedCounts' = usedCounts
    /\ targets' = targets
    /\ solverOut' = NoResult
    /\ callTrace' = NoTrace
    /\ UNCHANGED <<factorialCache, fnArgs, fnOut>>

\* the faces entered into the dice slots of these turns
TurnFaces == {1, WormFace}

NextTurn ==
    \/ \E idx \in 1..TotalDice, v \in {0} \cup TurnFaces : setDieValue(idx, v)
    \/ \E face \in Faces : acceptPick(face)
    \/ finishTurn
    \/ load

SpecTurn == InitTurn /\ [][NextTurn]_vars

\* ------------------------------------------- the solver's functions, called
\* directly on arguments drawn from the sets below

PoolLow == << Tile(5, 1, TRUE), Tile(6, 2, FALSE), Tile(7, 3, TRUE) >>
PoolTies == << Tile(24, 2, FALSE), Tile(26, 2, TRUE), Tile(21, 1, TRUE),
               Tile(26, 3, FALSE), Tile(26, 3, TRUE) >>
FnPools == {PoolA, PoolB, PoolLow, PoolTies, buildDefaultTargets}

\* every score a turn can reach
Scores == 0..(TotalDice * faceValue(WormFace))

FindEligibleTilesArgs ==
    [fn : {"findEligibleTiles"}, score : Scores, targets : FnPools]

EnumerateOutcomesArgs == [fn : {"enumerateOutcomes"}, n : 0..TotalDice]

\* probSuccess on the claimable states with any number of dice, and on every
\* state with fewer than MaxRoll dice
ProbSuccessArgs ==
    {a \in [fn : {"probSuccess"}, remainingDice : 0..TotalDice, score : {8, 10, 28, 30},
            usedMask : {{1, 3}, {1, WormFace}}, mode : SolverMode,
            targets : {PoolA, PoolB}] :
        a.remainingDice < MaxRoll \/ isSuccess(a.score, a.usedMask, a.targets)}

\* solve on turns where every pick is claimable, with any number of dice
SolveArgs ==
    {a \in [fn : {"solve"}, rolls : {<<WormFace>>, <<1>>, <<2, 2>>, <<2, 1>>},
            targets : {PoolLow},
            usedCounts : {EmptyRecord} \cup {(WormFace :> k) : k \in 1..(TotalDice - 1)},
            mode : SolverMode] :
        /\ Len(a.rolls) <= nDiceNow(a.usedCounts)
        /\ WormFace \in baseUsedMask(a.usedCounts) \/ a.rolls = <<WormFace>>
        /\ \A f \in Faces :
              (rollCounter(a.rolls, f) > 0 /\ f \notin baseUsedMask(a.usedCounts))
              => isSuccess(computeCurrentScore(a.usedCounts)
                             + faceValue(f) * rollCounter(a.rolls, f),
                           baseUsedMask(a.usedCounts) \cup {f}, a.targets)}

\* probSuccess on the default pool: five dice banked as threes and worms, two
\* worms (score 19) or three (score 21); and the pool's highest threshold with
\* any number of dice
ProbSuccessDefaultArgs ==
    [fn : {"probSuccess"}, remainingDice : {3}, score : {19, 21},
     usedMask : {{3, WormFace}}, mode : SolverMode, targets : {buildDefaultTargets}]
    \cup [fn : {"probSuccess"}, remainingDice : 0..TotalDice, score : {36},
          usedMask : {{WormFace}}, mode : SolverMode, targets : {buildDefaultTargets}]

ProbSuccessCalls == ProbSuccessArgs \cup ProbSuccessDefaultArgs

\* the used records of turns with one or two dice left
LateTurns ==
    { (1 :> 6), (WormFace :> 6), (1 :> 3) @@ (WormFace :> 3), (2 :> 7) }

\* solve near the end of a turn, on every roll of the dice left over two
\* faces and the worm, with an empty pool, a pool out of reach of the low
\* scores (PoolB) and a pool in reach of all (PoolLow)
SolveLateArgs ==
    {a \in [fn : {"solve"},
            rolls : {<<>>, <<1>>, <<2>>, <<WormFace>>, <<1, 2>>, <<2, 2>>, <<WormFace, 1>>},
            targets : {<<>>, PoolB, PoolLow},
            usedCounts : LateTurns,
            mode : SolverMode] :
        Len(a.rolls) <= nDiceNow(a.usedCounts)}

\* a roll and a used record solve takes as they are: faces 1 to 6, counts
\* that are not negative, and no more than the eight dice in all
ValidInput(rolls, usedCnt) ==
    /\ \A i \in DOMAIN rolls : rolls[i] \in Faces
    /\ \A f \in DOMAIN usedCnt : f \in Faces /\ usedCnt[f] >= 0
    /\ Len(rolls) + usedDice(usedCnt) <= TotalDice

\* solve on the default pool with a roll or a used record out of range: a
\* face 7, a count of -1, and one die more than the eight
SolveInvalidArgs ==
    {a \in [fn : {"solve"},
            rolls : {<<7>>, <<1>>, <<1, 1>>},
            targets : {buildDefaultTargets},
            usedCounts : { (WormFace :> 6), (7 :> 1) @@ (WormFace :> 6),
                           (1 :> -1) @@ (WormFace :> 7), (2 :> 7) },
            mode : SolverMode] :
        ~ValidInput(a.rolls, a.usedCounts)}

SolveCalls == SolveArgs \cup SolveLateArgs \cup SolveInvalidArgs

\* the states with k dice left that a turn can come to from the state
\* (n, score, usedMask): picks of n - k dice on faces outside usedMask
LaterStates(n, score, usedMask, k) ==
    LET picked == SelectSeq(genCountVectors(n - k, NumFaces),
                            LAMBDA c : \A f \in usedMask : c[f] = 0)
    IN [i \in 1..Len(picked) |->
          [score |-> score + picked[i][1] * faceValue(1) + picked[i][2] * faceValue(2)
                           + picked[i][3] * faceValue(3) + picked[i][4] * faceValue(4)
                           + picked[i][5] * faceValue(5) + picked[i][6] * faceValue(6),
           usedMask |-> usedMask \cup {f \in Faces : picked[i][f] > 0}]]

\* the memo table after probSuccessClass was called, with the table memo, on
\* the states later[lo..hi] with k dice.  The range is halved as in
\* vectorLoop; the test of memo is never true (no key has a mode NoFace) and
\* has the states before lo evaluated first.
RECURSIVE memoAfter(_, _, _, _, _, _)
memoAfter(memo, tgts, k, later, lo, hi) ==
    IF memoKey(k, 0, {}, NoFace) \in DOMAIN memo \/ lo > hi THEN memo
    ELSE IF lo = hi
    THEN probSuccessClass(memo, tgts, k, later[lo].score, later[lo].usedMask).memo
    ELSE memoAfter(memoAfter(memo, tgts, k, later, lo, (lo + hi) \div 2),
                   tgts, k, later, (lo + hi) \div 2 + 1, hi)

\* the memo table of probSuccessClass filled for the later states with up to
\* k dice, those with fewer dice first
RECURSIVE memoUpTo(_, _, _, _, _)
memoUpTo(tgts, n, score, usedMask, k) ==
    IF k <= 0 THEN EmptyRecord
    ELSE memoAfter(memoUpTo(tgts, n, score, usedMask, k - 1), tgts, k,
                   LaterStates(n, score, usedMask, k),
                   1, Len(LaterStates(n, score, usedMask, k)))

\* probSuccessClass of a state, called on a memo table that holds its own
\* values for the later states.  An entry of the table is the value the
\* function returns for its key, so the value is that of the call on an empty
\* table; taking the states with fewer dice first keeps the evaluation
\* shallow.
valueClass(tgts, n, score, usedMask) ==
    probSuccessClass(memoUpTo(tgts, n, score, usedMask, n - 1), tgts, n, score, usedMask).val


\* the class of the ANY_TILE value of the states probSuccess is called on, and
\* of two states of the default pool with only worms banked: three worms with
\* 5 dice left (score 15), and one worm with 7 dice left (score 5)
ProbSuccessClassArgs ==
    {[fn |-> "probSuccessClass", remainingDice |-> a.remainingDice, score |-> a.score,
      usedMask |-> a.usedMask, targets |-> a.targets] : a \in ProbSuccessCalls}
    \cup {[fn |-> "probSuccessClass", remainingDice |-> 5, score |-> 15,
           usedMask |-> {WormFace}, targets |-> buildDefaultTargets],
          [fn |-> "probSuccessClass", remainingDice |-> 7, score |-> 5,
           usedMask |-> {WormFace}, targets |-> buildDefaultTargets]}

\* solveMultiMode on the valid rolls and used records solve is called on
SolveMultiModeArgs ==
    {[fn |-> "solveMultiMode", rolls |-> a.rolls, targets |-> a.targets,
      usedCounts |-> a.usedCounts] : a \in SolveArgs \cup SolveLateArgs}

FnArgs ==
    FindEligibleTilesArgs \cup EnumerateOutcomesArgs \cup ProbSuccessCalls \cup SolveCalls
    \cup SolveMultiModeArgs

InitFn ==
    /\ fnArgs \in FnArgs
    /\ fnOut = NoCall
    /\ factorialCache = <<1>>
    /\ dice = zeros(TotalDice)
    /\ usedCounts = EmptyRecord
    /\ targets = buildDefaultTargets
    /\ solverOut = NoResult
    /\ callTrace = NoTrace

CallFindEligibleTiles ==
    /\ fnArgs.fn = "findEligibleTiles"
    /\ fnOut = NoCall
    /\ fnOut' = [elig |-> findEligibleTiles(fnArgs.score, fnArgs.targets),
                 targets |-> findEligibleTilesTargets(fnArgs.score, fnArgs.targets)]
    /\ UNCHANGED <<fnArgs, factorialCache, dice, usedCounts, targets, solverOut, callTrace>>

\* r is what enumerateOutcomes returned
OutcomesReturned(r) ==
    /\ fnOut' = [vectors |-> r.vectors, ways |-> r.ways, totalOutcomes |-> r.totalOutcomes]
    /\ factorialCache' = r.cache

CallEnumerateOutcomes ==
    /\ fnArgs.fn = "enumerateOutcomes"
    /\ fnOut = NoCall
    /\ OutcomesReturned(enumerateOutcomes(factorialCache, fnArgs.n))
    /\ UNCHANGED <<fnArgs, dice, usedCounts, targets, solverOut, callTrace>>

\* r is what probSuccess returned
ProbSuccessReturned(r) ==
    /\ fnOut' = [val |-> r.val, memo |-> r.st.memo]
    /\ factorialCache' = r.st.cache

CallProbSuccess ==
    /\ fnArgs.fn = "probSuccess"
    /\ fnOut = NoCall
    /\ ProbSuccessReturned(
          probSuccess([memo |-> EmptyRecord, cache |-> factorialCache, paid |-> {}, picks |-> {}],
                      fnArgs.mode, fnArgs.targets, fnArgs.remainingDice, fnArgs.score,
                      fnArgs.usedMask))
    /\ UNCHANGED <<fnArgs, dice, usedCounts, targets, solverOut, callTrace>>

\* r is what solve returned
CallSolveReturned(r) ==
    /\ fnOut' = r.out
    /\ factorialCache' = r.cache

CallSolve ==
    /\ fnArgs.fn = "solve"
    /\ fnOut = NoCall
    /\ CallSolveReturned(solve(factorialCache, fnArgs.rolls, fnArgs.targets,
                               fnArgs.usedCounts, fnArgs.mode))
    /\ UNCHANGED <<fnArgs, dice, usedCounts, targets, solverOut, callTrace>>

CallProbSuccessClass ==
    /\ fnArgs.fn = "probSuccessClass"
    /\ fnOut = NoCall
    /\ fnOut' = [val |-> valueClass(fnArgs.targets, fnArgs.remainingDice, fnArgs.score,
                                    fnArgs.usedMask)]
    /\ UNCHANGED <<fnArgs, factorialCache, dice, usedCounts, targets, solverOut, callTrace>>

\* r is what solveMultiMode returned
CallSolveMultiModeReturned(r) ==
    /\ fnOut' = r.out
    /\ factorialCache' = r.cache

CallSolveMultiMode ==
    /\ fnArgs.fn = "solveMultiMode"
    /\ fnOut = NoCall
    /\ CallSolveMultiModeReturned(solveMultiMode(factorialCache, fnArgs.rolls, fnArgs.targets,
                                                 fnArgs.usedCounts))
    /\ UNCHANGED <<fnArgs, dice, usedCounts, targets, solverOut, callTrace>>

NextFn ==
    \/ CallFindEligibleTiles
    \/ CallEnumerateOutcomes
    \/ CallProbSuccess
    \/ CallSolve
    \/ CallSolveMultiMode

SpecFn == InitFn /\ [][NextFn]_vars

\* ------------------------------------------- probSuccess on classes, called
\* directly

InitClass ==
    /\ fnArgs \in ProbSuccessClassArgs
    /\ fnOut = NoCall
    /\ factorialCache = <<1>>
    /\ dice = zeros(TotalDice)
    /\ usedCounts = EmptyRecord
    /\ targets = buildDefaultTargets
    /\ solverOut = NoResult
    /\ callTrace = NoTrace

NextClass == CallProbSuccessClass

SpecClass == InitClass /\ [][NextClass]_vars

\* ------------------------------------------- solve run step by step: the
\* calls in progress as a stack of frames, the frame of solve at the bottom and
\* one frame for each call of probSuccess that has not returned.  A frame
\* holds where its loops stand; the memo table is held as the set of its keys
\* (probMemo.has is the only test the control flow makes of it); the numbers
\* are those of probSuccess above and no branch depends on them.

\* lines 153-168: yieldVectors for each number of dice of a turn
yieldVectors == [n \in 0..TotalDice |-> genCountVectors(n, NumFaces)]

\* line 196: genCountVectors(n, 6)
countVectors(n) ==
    IF n \in DOMAIN yieldVectors THEN yieldVectors[n] ELSE genCountVectors(n, NumFaces)

\* lines 101-105: the counts of the visible roll, face by face
rollCounts(rolls) == [f \in 1..NumFaces |-> rollCounter(rolls, f)]

\* solve at its face loop (line 259), before the pick-th face it does not skip
solveFrame == [fn |-> "solve", pick |-> 1]

\* probSuccess(n, score, usedMask) at its entry (vector = 0); in the loop of
\* line 196 vector is the position of the count vector and pick the position
\* among the faces the loop of line 207 does not skip
probSuccessFrame(n, score, usedMask) ==
    [fn |-> "probSuccess", remainingDice |-> n, score |-> score, usedMask |-> usedMask,
     vector |-> 0, pick |-> 1]

\* the frame of the call that is running
running == fnOut.stack[Len(fnOut.stack)]

\* what the loop over the faces of a frame works on: solve on the visible
\* roll (lines 113-114), probSuccess on its arguments and the count vector
frameDice(fr) ==
    IF fr.fn = "solve" THEN nDiceNow(fnArgs.usedCounts) ELSE fr.remainingDice
frameScore(fr) ==
    IF fr.fn = "solve" THEN computeCurrentScore(fnArgs.usedCounts) ELSE fr.score
frameMask(fr) ==
    IF fr.fn = "solve" THEN baseUsedMask(fnArgs.usedCounts) ELSE fr.usedMask
frameCounts(fr) ==
    IF fr.fn = "solve" THEN rollCounts(fnArgs.rolls)
    ELSE countVectors(fr.remainingDice)[fr.vector]

\* the frame stands inside its loop over the faces
inFaceLoop(fr) ==
    IF fr.fn = "solve" THEN TRUE
    ELSE fr.vector >= 1 /\ fr.vector <= Len(countVectors(fr.remainingDice))

frameLegal(fr) == legalFaces(frameCounts(fr), frameMask(fr))

\* the dice left after a pick that takes none
newRemainingSame(n, counts, face) == n

\* lines 217 and 271: newRemaining = n - cnt
newRemaining(n, counts, face) == n - counts[face]

\* lines 214-216 and 268-270
newScore(score, counts, face) == score + faceValue(face) * counts[face]
newUsedMask(usedMask, face) == usedMask \cup {face}

\* lines 220-224 and 274-278: the pick of face from frame fr needs a call of
\* probSuccess
needsCall(fr, face) ==
    /\ ~isSuccess(newScore(frameScore(fr), frameCounts(fr), face),
                  newUsedMask(frameMask(fr), face), fnArgs.targets)
    /\ newRemaining(frameDice(fr), frameCounts(fr), face) # 0

\* the stack with the running frame moved past its current pick
pastPick == [fnOut.stack EXCEPT ![Len(fnOut.stack)].pick = @ + 1]

\* lines 220-223 and 274-277: a pick whose value is known at once
runPick ==
    /\ fnArgs.fn = "solve"
    /\ fnOut.stack # <<>>
    /\ inFaceLoop(running)
    /\ running.pick <= Len(frameLegal(running))
    /\ ~needsCall(running, frameLegal(running)[running.pick])
    /\ fnOut' = [fnOut EXCEPT !.stack = pastPick]
    /\ UNCHANGED <<fnArgs, factorialCache, dice, usedCounts, targets, solverOut, callTrace>>

\* lines 224 and 278: a pick that calls probSuccess
runCall ==
    /\ fnArgs.fn = "solve"
    /\ fnOut.stack # <<>>
    /\ inFaceLoop(running)
    /\ running.pick <= Len(frameLegal(running))
    /\ needsCall(running, frameLegal(running)[running.pick])
    /\ fnOut' = [fnOut EXCEPT !.stack =
                    Append(pastPick,
                           probSuccessFrame(
                               newRemaining(frameDice(running), frameCounts(running),
                                            frameLegal(running)[running.pick]),
                               newScore(frameScore(running), frameCounts(running),
                                        frameLegal(running)[running.pick]),
                               newUsedMask(frameMask(running), frameLegal(running)[running.pick])))]
    /\ UNCHANGED <<fnArgs, factorialCache, dice, usedCounts, targets, solverOut, callTrace>>

\* the stack after the running call has returned
popped == SubSeq(fnOut.stack, 1, Len(fnOut.stack) - 1)

\* the key of a probSuccess frame (line 175)
frameKey(fr) == memoKey(fr.remainingDice, fr.score, fr.usedMask, fnArgs.mode)

\* lines 175-192: the entry of probSuccess.  It returns at once on a key of
\* the memo table, on a success and on no dice left, and otherwise starts
\* the loop over the count vectors.
runEntry ==
    /\ fnArgs.fn = "solve"
    /\ fnOut.stack # <<>>
    /\ running.fn = "probSuccess"
    /\ running.vector = 0
    /\ fnOut' =
          IF frameKey(running) \in fnOut.memo
          THEN [fnOut EXCEPT !.stack = popped]
          ELSE IF isSuccess(running.score, running.usedMask, fnArgs.targets) \/ running.remainingDice = 0
          THEN [fnOut EXCEPT !.stack = popped, !.memo = @ \cup {frameKey(running)}]
          ELSE [fnOut EXCEPT !.stack = [@ EXCEPT ![Len(@)].vector = 1]]
    /\ UNCHANGED <<fnArgs, factorialCache, dice, usedCounts, targets, solverOut, callTrace>>

\* lines 236-241: the end of the body of the loop over the count vectors
runNextVector ==
    /\ fnArgs.fn = "solve"
    /\ fnOut.stack # <<>>
    /\ running.fn = "probSuccess"
    /\ inFaceLoop(running)
    /\ running.pick > Len(frameLegal(running))
    /\ fnOut' = [fnOut EXCEPT !.stack =
                    [@ EXCEPT ![Len(@)].vector = @ + 1, ![Len(@)].pick = 1]]
    /\ UNCHANGED <<fnArgs, factorialCache, dice, usedCounts, targets, solverOut, callTrace>>

\* lines 244-245: the loop over the count vectors is over
runStore ==
    /\ fnArgs.fn = "solve"
    /\ fnOut.stack # <<>>
    /\ running.fn = "probSuccess"
    /\ running.vector > Len(countVectors(running.remainingDice))
    /\ fnOut' = [fnOut EXCEPT !.stack = popped, !.memo = @ \cup {frameKey(running)}]
    /\ UNCHANGED <<fnArgs, factorialCache, dice, usedCounts, targets, solverOut, callTrace>>

\* lines 303-304: the face loop of solve is over
runReturn ==
    /\ fnArgs.fn = "solve"
    /\ fnOut.stack # <<>>
    /\ running.fn = "solve"
    /\ running.pick > Len(frameLegal(running))
    /\ fnOut' = [fnOut EXCEPT !.stack = popped]
    /\ UNCHANGED <<fnArgs, factorialCache, dice, usedCounts, targets, solverOut, callTrace>>

\* solve at the start of a turn on the default pool: one 1 and seven worms
RunFirstRoll ==
    [fn : {"solve"}, rolls : {<<1, WormFace, WormFace, WormFace, WormFace, WormFace,
                               WormFace, WormFace>>},
     targets : {buildDefaultTargets}, usedCounts : {EmptyRecord}, mode : {HIGHEST_SCORE}]

\* solve with four dice left on a roll of four faces, with a pool no score of
\* the turn reaches
RunOutOfReach ==
    [fn : {"solve"}, rolls : {<<1, 2, 3, WormFace>>},
     targets : {<<>>, << Tile(41, 1, TRUE) >>}, usedCounts : {(4 :> 4)}, mode : SolverMode]

RunArgs == SolveCalls \cup RunFirstRoll \cup RunOutOfReach

InitRun ==
    /\ fnArgs \in RunArgs
    /\ fnOut = [stack |-> << solveFrame >>, memo |-> {}]
    /\ factorialCache = <<1>>
    /\ dice = zeros(TotalDice)
    /\ usedCounts = EmptyRecord
    /\ targets = buildDefaultTargets
    /\ solverOut = NoResult
    /\ callTrace = NoTrace

NextRun ==
    \/ runPick
    \/ runCall
    \/ runEntry
    \/ runNextVector
    \/ runStore
    \/ runReturn

\* solve runs to completion on one thread: a call in progress always takes
\* its next step
SpecRun == InitRun /\ [][NextRun]_vars /\ WF_vars(NextRun)

\* ------------------------------------------------------------------- claims
\* the state shows the result of a solve call on it
Solved == solverOut # NoResult

\* the faces of the roll that are not banked
legalNow == {f \in Faces : rollCounter(roll(dice), f) > 0 /\ ~usedTruthy(f)}

\* C1 (worm gate): a state whose used faces do not include face 6 is not a
\* success whatever its score and the pool, and no pick of a solve call, at
\* the top level or inside the recursion, whose resulting used set lacks
\* face 6 is given the terminal payoff.
C1_WormGate ==
    /\ \A score \in Scores, mask \in SUBSET (Faces \ {WormFace}) :
          /\ ~isSuccess(score, mask, targets)
          /\ getBestTileValue(score, mask, targets) = 0
    /\ Solved => \A p \in callTrace.paid : WormFace \in p[2]

\* a solve call valued a pick whose score reaches a tile but whose used set
\* lacks the worm, and gave the terminal payoff to another pick
C1_Witness ==
    /\ Solved
    /\ callTrace.paid # {}
    /\ \E f \in DOMAIN solverOut.choices :
          /\ WormFace \notin baseUsedMask(usedCounts) \cup {f}
          /\ Len(findEligibleTiles(solverOut.choices[f].immediateScore, targets)) > 0
          /\ QLess(solverOut.probs[f], QInt(1))

\* --- the reference the values are compared with: the exact expectation
\* computed from the rules of the turn, without a memo table, over the set of
\* outcomes of a throw.  A value of a state with n dice in hand is a multiple
\* of 1 / RefScale(n); the reference computes value * RefScale(n), an integer.

\* the throws of n dice as counts per face: the sequences of k counts that
\* sum to n
RECURSIVE Compositions(_, _)
Compositions(n, k) ==
    IF k = 0 THEN (IF n = 0 THEN {<<>>} ELSE {})
    ELSE UNION {{Append(c, j) : c \in Compositions(n - j, k - 1)} : j \in 0..n}

RECURSIVE Factorial(_)
Factorial(n) == IF n <= 1 THEN 1 ELSE n * Factorial(n - 1)

\* number of throws of n dice that show the counts c
RECURSIVE Arrangements(_, _)
Arrangements(c, n) ==
    IF c = <<>> THEN 1
    ELSE (Factorial(n) \div (Factorial(Head(c)) * Factorial(n - Head(c))))
         * Arrangements(Tail(c), n - Head(c))

\* 6^n * 6^(n-1) * ... * 6^1
RefScale(n) == 6 ^ ((n * (n + 1)) \div 2)

\* the sum of the numbers term[x] >= 0
RefSum(term) ==
    BagCardinality([x \in DOMAIN term |-> term[x] + 1]) - Cardinality(DOMAIN term)

\* the largest number of S, 0 when S is empty
RefMax(S) == IF S = {} THEN 0 ELSE CHOOSE x \in S : \A y \in S : y <= x

\* the tiles a score may take
RefEligible(score, tgts) ==
    {i \in DOMAIN tgts : IF tgts[i].canOvershoot THEN score >= tgts[i].value
                                                 ELSE score = tgts[i].value}

RefClaimable(score, mask, tgts) == WormFace \in mask /\ RefEligible(score, tgts) # {}

\* points of the best eligible tile: the one of the highest threshold and,
\* among those, of the most points
RefBestPoints(score, tgts) ==
    LET e == RefEligible(score, tgts)
        top == CHOOSE i \in e : \A j \in e :
                   \/ tgts[j].value < tgts[i].value
                   \/ tgts[j].value = tgts[i].value /\ tgts[j].pts <= tgts[i].pts
    IN tgts[top].pts

RefWin == "win"
RefPoints == "points"

\* RefValue(goal, n, score, mask, tgts) is RefScale(n) times the value of the
\* state (n dice in hand, score, mask banked) under optimal play:
\*   goal = RefWin: the largest probability of reaching a claimable state;
\*   goal = RefPoints: the largest expected points of the tile claimed in the
\*     end, where at a claimable state the player stops and takes the best
\*     eligible tile or, with dice left, throws them, whichever is worth more.
\* A throw that offers no legal face ends the turn with nothing.
RECURSIVE RefValue(_, _, _, _, _)

\* RefScale(n - 1) times what picking face f of the throw c is worth
RefPick(goal, c, f, n, score, mask, tgts) ==
    RefValue(goal, n - c[f], score + faceValue(f) * c[f], mask \cup {f}, tgts)
        * (RefScale(n - 1) \div RefScale(n - c[f]))

\* the throw c weighed by the number of ways it falls, the player taking the
\* legal face that is worth most
RefOutcome(goal, c, n, score, mask, tgts) ==
    Arrangements(c, n)
        * RefMax({RefPick(goal, c, f, n, score, mask, tgts) :
                    f \in {g \in Faces : c[g] > 0 /\ g \notin mask}})

RefThrow(goal, n, score, mask, tgts) ==
    IF n = 0 THEN 0
    ELSE RefSum([c \in Compositions(n, NumFaces) |->
                    RefOutcome(goal, c, n, score, mask, tgts)])

RefValue(goal, n, score, mask, tgts) ==
    IF ~RefClaimable(score, mask, tgts) THEN RefThrow(goal, n, score, mask, tgts)
    ELSE IF goal = RefWin THEN RefScale(n)
    ELSE RefMax({RefBestPoints(score, tgts) * RefScale(n),
                 RefThrow(goal, n, score, mask, tgts)})

\* the value a solve call reported for face f, times RefScale of the dice left
Reported(f) ==
    LET v == solverOut.probs[f]
        e == (solverOut.choices[f].remainingDice * (solverOut.choices[f].remainingDice + 1)) \div 2
    IN IF v.exp <= e THEN v.num * 6 ^ (e - v.exp) ELSE -1

\* the reference value of the state that picking face f leads to
Reference(goal, f) ==
    RefValue(goal, nDiceNow(usedCounts) - rollCounter(roll(dice), f),
             computeCurrentScore(usedCounts) + faceValue(f) * rollCounter(roll(dice), f),
             baseUsedMask(usedCounts) \cup {f}, targets)

\* C2 (optimality in probability mode): the value solve reports for a legal
\* face in ANY_TILE mode is the largest probability, over all strategies of
\* choosing a legal face after each later roll, of reaching a claimable state,
\* as the exact multinomial law gives it without memoization.
C2_AnyTileOptimal ==
    (Solved /\ solverOut.mode = ANY_TILE) =>
        /\ DOMAIN solverOut.probs = legalNow
        /\ \A f \in legalNow :
              Reported(f) = Reference(RefWin, f)

\* an ANY_TILE call whose recursion met one (dice, score) with two used sets,
\* and reported a probability strictly between 0 and 1
C2_Witness ==
    /\ Solved
    /\ solverOut.mode = ANY_TILE
    /\ \E k1, k2 \in DOMAIN callTrace.memo :
          k1[1] = k2[1] /\ k1[2] = k2[2] /\ k1[3] # k2[3]
    /\ \E f \in legalNow :
          QLess(QInt(0), solverOut.probs[f]) /\ QLess(solverOut.probs[f], QInt(1))

\* C3 (optimality in expected-value mode): the value solve reports for a legal
\* face in HIGHEST_SCORE mode is the expected points of the tile claimed in
\* the end under optimal play, where at each claimable state the player may
\* stop and take the best eligible tile or roll the remaining dice again.
C3_HighestScoreOptimal ==
    (Solved /\ solverOut.mode = HIGHEST_SCORE) =>
        /\ DOMAIN solverOut.probs = legalNow
        /\ \A f \in legalNow :
              Reported(f) = Reference(RefPoints, f)

\* a direct call of fn has returned
Returned(fn) == fnArgs.fn = fn /\ fnOut # NoCall

\* the terminal payoff of the mode at a claimable score
Payoff(mode, score, tgts) ==
    IF mode = ANY_TILE THEN QInt(1) ELSE QInt(findEligibleTiles(score, tgts)[1].pts)

\* C4 (terminal consistency): at a claimable (score, used), face 6 banked and
\* a tile eligible, the value is the terminal payoff of the mode, 1 in
\* ANY_TILE mode and the points of the first entry of findEligibleTiles in
\* HIGHEST_SCORE mode, whatever the number of dice left, for a pick valued at
\* the top level of solve and for a state valued by probSuccess.
C4_TerminalConsistency ==
    /\ Returned("probSuccess") /\ RefClaimable(fnArgs.score, fnArgs.usedMask, fnArgs.targets)
         => fnOut.val = Payoff(fnArgs.mode, fnArgs.score, fnArgs.targets)
    /\ Returned("solve") =>
         \A f \in DOMAIN fnOut.probs :
            RefClaimable(fnOut.choices[f].immediateScore,
                         baseUsedMask(fnArgs.usedCounts) \cup {f}, fnArgs.targets)
            => fnOut.probs[f] = Payoff(fnArgs.mode, fnOut.choices[f].immediateScore,
                                       fnArgs.targets)

\* solve gave a pick that takes the last dice to a claimable state its payoff,
\* in HIGHEST_SCORE mode with two tiles eligible
C4_Witness ==
    /\ Returned("solve")
    /\ fnArgs.mode = HIGHEST_SCORE
    /\ \E f \in DOMAIN fnOut.probs :
          /\ fnOut.choices[f].remainingDice = 0
          /\ Len(findEligibleTiles(fnOut.choices[f].immediateScore, fnArgs.targets)) > 1
          /\ fnOut.probs[f] = QInt(3)

\* number of entries of the sequence q that equal t
Occurrences(q, t) == Cardinality({i \in DOMAIN q : q[i] = t})

\* C5 (findEligibleTiles): the result holds exactly the tiles t of the pool
\* with (t.canOvershoot and score >= t.value) or (not t.canOvershoot and
\* score = t.value), each as often as the pool holds it, in descending order
\* of threshold and, among equal thresholds, of points; the pool passed in is
\* as it was.
C5_FindEligibleTiles ==
    Returned("findEligibleTiles") =>
        /\ \A i \in DOMAIN fnArgs.targets :
              Occurrences(fnOut.elig, fnArgs.targets[i]) =
                  IF i \in RefEligible(fnArgs.score, fnArgs.targets)
                  THEN Occurrences(fnArgs.targets, fnArgs.targets[i]) ELSE 0
        /\ Len(fnOut.elig) = Cardinality(RefEligible(fnArgs.score, fnArgs.targets))
        /\ \A i, j \in DOMAIN fnOut.elig :
              i < j => \/ fnOut.elig[i].value > fnOut.elig[j].value
                       \/ /\ fnOut.elig[i].value = fnOut.elig[j].value
                          /\ fnOut.elig[i].pts >= fnOut.elig[j].pts
        /\ fnOut.targets = fnArgs.targets

\* tiles of one threshold came back in another order than the pool lists them
C5_Witness ==
    /\ Returned("findEligibleTiles")
    /\ \E i, j \in DOMAIN fnOut.elig :
          /\ i < j
          /\ fnOut.elig[i].value = fnOut.elig[j].value
          /\ fnOut.elig[i].pts > fnOut.elig[j].pts
          /\ \E a, b \in DOMAIN fnArgs.targets :
                a > b /\ fnArgs.targets[a] = fnOut.elig[i] /\ fnArgs.targets[b] = fnOut.elig[j]
    /\ Len(fnOut.elig) < Len(fnArgs.targets)

\* the binomial coefficient C(n + 5, 5)
CompositionCount(n) == ((n + 5) * (n + 4) * (n + 3) * (n + 2) * (n + 1)) \div 120

\* C8 (outcome distribution): for n from 0 to 8 genCountVectors(n) yields each
\* 6-tuple of non-negative counts summing to n exactly once, C(n+5, 5) tuples,
\* and the weights n!/(c1! ... c6!) given to them sum to 6^n.
C8_OutcomeDistribution ==
    Returned("enumerateOutcomes") =>
        /\ Len(fnOut.vectors) = CompositionCount(fnArgs.n)
        /\ {fnOut.vectors[i] : i \in DOMAIN fnOut.vectors} = Compositions(fnArgs.n, NumFaces)
        /\ \A i \in DOMAIN fnOut.vectors :
              fnOut.ways[i] = Arrangements(fnOut.vectors[i], fnArgs.n)
        /\ RefSum(fnOut.ways) = 6 ^ fnArgs.n
        /\ fnOut.totalOutcomes = 6 ^ fnArgs.n

\* the outcomes of all eight dice
C8_Witness ==
    /\ Returned("enumerateOutcomes")
    /\ fnArgs.n = TotalDice
    /\ Len(fnOut.vectors) = 1287
    /\ \E i \in DOMAIN fnOut.vectors : fnOut.ways[i] = 2520

\* C10 as claimed (eligibility monotonicity): for any pool and scores
\* s1 <= s2, findEligibleTiles(s2, pool) has at least as many tiles as
\* findEligibleTiles(s1, pool).
C10_EligibilityMonotone ==
    Returned("findEligibleTiles") =>
        \A s1 \in Scores :
            s1 <= fnArgs.score =>
                Len(findEligibleTiles(s1, fnArgs.targets)) <= Len(fnOut.elig)

\* every tile of the pool may be taken with a higher score
AllOvershoot(tgts) == \A i \in DOMAIN tgts : tgts[i].canOvershoot

\* C10 as amended: for any pool whose tiles all allow overshoot and scores
\* s1 <= s2, findEligibleTiles(s2, pool) has at least as many tiles as
\* findEligibleTiles(s1, pool).
C10_EligibilityMonotoneOvershoot ==
    (Returned("findEligibleTiles") /\ AllOvershoot(fnArgs.targets)) =>
        \A s1 \in Scores :
            s1 <= fnArgs.score =>
                Len(findEligibleTiles(s1, fnArgs.targets)) <= Len(fnOut.elig)

\* on a pool of overshoot tiles, a score with more eligible tiles than the
\* score below it, which has some
C10_Witness ==
    /\ Returned("findEligibleTiles")
    /\ AllOvershoot(fnArgs.targets)
    /\ fnArgs.score > 0
    /\ Len(findEligibleTiles(fnArgs.score - 1, fnArgs.targets)) > 0
    /\ Len(findEligibleTiles(fnArgs.score - 1, fnArgs.targets)) < Len(fnOut.elig)

\* C6, the solver's part: a banked face is not in probs or choices and is not
\* bestFace, and no pick evaluated by the call takes a face of its used set
C6_SolveSkipsUsed ==
    Solved =>
        /\ \A f \in baseUsedMask(usedCounts) :
              /\ f \notin DOMAIN solverOut.probs
              /\ f \notin DOMAIN solverOut.choices
              /\ solverOut.bestFace # f
        /\ \A p \in callTrace.picks : p[2] \notin p[1]

\* C6 (a face is banked at most once per turn): solve never lists a banked
\* face in probs or choices nor returns it as bestFace, the recursion never
\* picks a face of the used set again, and acceptPick of a banked face leaves
\* usedCounts and the dice as they are.
C6_BankedOnce ==
    /\ []C6_SolveSkipsUsed
    /\ [][\A f \in Faces : (usedTruthy(f) /\ acceptPick(f)) => UNCHANGED <<usedCounts, dice>>]_vars

\* a banked face lies in the roll, the call valued another face and went into
\* the recursion
C6_Witness ==
    /\ Solved
    /\ \E f \in baseUsedMask(usedCounts) : rollCounter(roll(dice), f) > 0
    /\ DOMAIN solverOut.probs # {}
    /\ \E p \in callTrace.picks : p[1] # baseUsedMask(usedCounts)

\* C7 (bestFace): bestFace is a legal face whose value is the largest of the
\* legal faces, the smallest face among those of largest value, and it is
\* null exactly when the roll has no legal face.
C7_BestFace ==
    Solved =>
        /\ (solverOut.bestFace = NoFace) <=> (legalNow = {})
        /\ solverOut.bestFace # NoFace =>
              /\ solverOut.bestFace \in legalNow
              /\ \A g \in legalNow :
                    /\ QLeq(solverOut.probs[g], solverOut.probs[solverOut.bestFace])
                    /\ solverOut.probs[g] = solverOut.probs[solverOut.bestFace]
                         => solverOut.bestFace <= g

\* two legal faces tie for the largest value
C7_Witness ==
    /\ Solved
    /\ \E f, g \in legalNow :
          /\ f < g
          /\ solverOut.bestFace = f
          /\ solverOut.probs[g] = solverOut.probs[f]

\* C9 (determinism and call isolation): the result of every solve call of a
\* sequence, whatever calls came before it and on whatever pools, is the
\* result the same call gives when it is the first of a fresh process, where
\* the factorial table is [1].
C9_CallIsolation ==
    Solved =>
        solverOut = solve(<<1>>, roll(dice), targets, usedCounts, solverOut.mode).out

\* a call that went into the recursion, entered with a factorial table that
\* earlier calls had filled, on a pool that is not the one the turn began with
C9_Witness ==
    /\ Solved
    /\ Len(callTrace.entryCache) > 2
    /\ DOMAIN callTrace.memo # {}
    /\ Len(targets) = 1

\* the value probSuccess gives the state of the arguments a in a fresh call
ValueOf(a) ==
    probSuccess([memo |-> EmptyRecord, cache |-> <<1>>, paid |-> {}, picks |-> {}],
                a.mode, a.targets, a.remainingDice, a.score, a.usedMask).val

\* C11 (value monotonicity): for a fixed pool, used set, number of dice left
\* and mode, the value of a state is at least the value of every state with a
\* lower score.
C11_ValueMonotone ==
    Returned("probSuccess") =>
        \A a \in ProbSuccessCalls :
            (/\ a.targets = fnArgs.targets
             /\ a.usedMask = fnArgs.usedMask
             /\ a.remainingDice = fnArgs.remainingDice
             /\ a.mode = fnArgs.mode
             /\ a.score <= fnArgs.score)
            => QLeq(ValueOf(a), fnOut.val)

\* C12 (a bust is worth zero): in both modes probSuccess values a state with
\* no dice left that is not claimable, in particular one whose used set lacks
\* face 6, at 0, and solve reports 0 for a pick that takes the last dice
\* without making the state claimable.
C12_BustIsZero ==
    /\ (/\ Returned("probSuccess")
        /\ fnArgs.remainingDice = 0
        /\ ~RefClaimable(fnArgs.score, fnArgs.usedMask, fnArgs.targets))
       => fnOut.val = QInt(0)
    /\ Returned("solve") =>
         \A f \in DOMAIN fnOut.probs :
            (/\ fnOut.choices[f].remainingDice = 0
             /\ ~RefClaimable(fnOut.choices[f].immediateScore,
                              baseUsedMask(fnArgs.usedCounts) \cup {f}, fnArgs.targets))
            => fnOut.probs[f] = QInt(0)

\* solve valued a pick that takes the last two dice, with face 6 banked and
\* a pool that is not empty, short of every tile
C12_Witness ==
    /\ Returned("solve")
    /\ WormFace \in baseUsedMask(fnArgs.usedCounts)
    /\ fnArgs.targets # <<>>
    /\ \E f \in DOMAIN fnOut.probs :
          /\ fnOut.choices[f].count = 2
          /\ fnOut.choices[f].remainingDice = 0
          /\ findEligibleTiles(fnOut.choices[f].immediateScore, fnArgs.targets) = <<>>
          /\ fnOut.probs[f] = QInt(0)

\* the call returned a SolverResult
IsRecommendation(r) == "bestFace" \in DOMAIN r

\* C13 (invalid input is rejected): a solve call with a roll value or a used
\* face outside 1..6, a negative used count, or more than eight dice between
\* the roll and the used record returns no SolverResult, and probSuccess is
\* not evaluated in it with a negative number of dice.
C13_InvalidInputRejected ==
    (Returned("solve") /\ ~ValidInput(fnArgs.rolls, fnArgs.usedCounts)) =>
        /\ ~IsRecommendation(fnOut)
        /\ \A k \in DOMAIN solve(<<1>>, fnArgs.rolls, fnArgs.targets,
                                 fnArgs.usedCounts, fnArgs.mode).memo : k[1] >= 0

\* the faces of the roll of a direct solve call that are not banked
LegalOf(rolls, usedCnt) ==
    {f \in Faces : rollCounter(rolls, f) > 0 /\ f \notin baseUsedMask(usedCnt)}

\* no tile of the pool is eligible at any score the turn can still come to
OutOfReach(tgts, usedCnt) ==
    \A s \in Scores :
        (/\ s >= computeCurrentScore(usedCnt)
         /\ s <= computeCurrentScore(usedCnt) + faceValue(WormFace) * nDiceNow(usedCnt))
        => RefEligible(s, tgts) = {}

ClassOf(q) ==
    IF q = QInt(0) THEN Zero
    ELSE IF q = QInt(1) THEN One
    ELSE IF QLess(QInt(0), q) /\ QLess(q, QInt(1)) THEN Between
    ELSE NoFace - 1

\* C15 (two states of the default pool): in ANY_TILE mode the value of the
\* state (5 dice, score 15, used {6}), which solve gives the pick of three
\* worms from a first roll, and the value of the state (7 dice, score 5, used
\* {6}) are strictly between 0 and 1.  The values are computed on classes;
\* where probSuccess can be computed on the numbers themselves, the class of
\* its value is the value computed on classes.
C15_DefaultPoolScenarios ==
    Returned("probSuccessClass") =>
        /\ (/\ fnArgs.targets = buildDefaultTargets
            /\ fnArgs.usedMask = {WormFace}
            /\ <<fnArgs.remainingDice, fnArgs.score>> \in {<<5, 15>>, <<7, 5>>})
           => fnOut.val = Between
        /\ (\/ fnArgs.remainingDice <= MaxRoll
            \/ isSuccess(fnArgs.score, fnArgs.usedMask, fnArgs.targets))
           => fnOut.val = ClassOf(ValueOf([mode |-> ANY_TILE, targets |-> fnArgs.targets,
                                           remainingDice |-> fnArgs.remainingDice,
                                           score |-> fnArgs.score,
                                           usedMask |-> fnArgs.usedMask]))

\* the state with one worm banked and 7 dice left was valued
C15_Witness ==
    /\ Returned("probSuccessClass")
    /\ fnArgs.targets = buildDefaultTargets
    /\ fnArgs.remainingDice = 7
    /\ fnArgs.score = faceValue(WormFace)
    /\ fnOut.val = Between

\* the highest threshold of the default pool and its tile
TopScore == buildDefaultTargets[Len(buildDefaultTargets)].value
TopTile == buildDefaultTargets[Len(buildDefaultTargets)]

\* a direct call of probSuccess on the default pool at score 36 with face 6
\* banked, in HIGHEST_SCORE mode
AtTopScore ==
    /\ Returned("probSuccess")
    /\ fnArgs.targets = buildDefaultTargets
    /\ fnArgs.score = TopScore
    /\ WormFace \in fnArgs.usedMask
    /\ fnArgs.mode = HIGHEST_SCORE

\* C16 as claimed (score 36 on the default pool): with face 6 banked the
\* state is claimable, findEligibleTiles(36, pool) is the threshold-36 tile
\* alone, and the HIGHEST_SCORE value is that tile's points, 4, for 0 to 8
\* dice left.
C16_TopScore ==
    /\ (/\ Returned("findEligibleTiles")
        /\ fnArgs.targets = buildDefaultTargets
        /\ fnArgs.score = TopScore)
       => fnOut.elig = <<TopTile>>
    /\ AtTopScore =>
          /\ isSuccess(fnArgs.score, fnArgs.usedMask, fnArgs.targets)
          /\ fnOut.val = QInt(TopTile.pts)

\* C16 as amended: with face 6 banked the state is claimable,
\* findEligibleTiles(36, pool) holds all sixteen tiles with the threshold-36
\* tile first, and the HIGHEST_SCORE value is that tile's points, 4, for 0 to
\* 8 dice left.
C16_TopScoreFirst ==
    /\ (/\ Returned("findEligibleTiles")
        /\ fnArgs.targets = buildDefaultTargets
        /\ fnArgs.score = TopScore)
       => /\ Len(fnOut.elig) = Len(buildDefaultTargets)
          /\ {fnOut.elig[i] : i \in DOMAIN fnOut.elig}
                = {buildDefaultTargets[i] : i \in DOMAIN buildDefaultTargets}
          /\ fnOut.elig[1] = TopTile
    /\ AtTopScore =>
          /\ isSuccess(fnArgs.score, fnArgs.usedMask, fnArgs.targets)
          /\ fnOut.val = QInt(4)

\* the state was valued with all eight dice left
C16_Witness ==
    /\ AtTopScore
    /\ fnArgs.remainingDice = TotalDice
    /\ fnOut.val = QInt(4)

\* the largest points value of a pool, 0 for the empty pool
MaxPoints(tgts) == RefMax({tgts[i].pts : i \in DOMAIN tgts})

\* the largest value of the mode on the pool
ValueBound(mode, tgts) == IF mode = ANY_TILE THEN QInt(1) ELSE QInt(MaxPoints(tgts))

\* C17 (value range): every value probSuccess computed in a solve call and
\* every entry of probs lies between 0 and 1 in ANY_TILE mode, and between 0
\* and the largest points value of the pool in HIGHEST_SCORE mode.
C17_ValueRange ==
    Solved =>
        /\ \A k \in DOMAIN callTrace.memo :
              /\ QLeq(QInt(0), callTrace.memo[k])
              /\ QLeq(callTrace.memo[k], ValueBound(solverOut.mode, targets))
        /\ \A f \in DOMAIN solverOut.probs :
              /\ QLeq(QInt(0), solverOut.probs[f])
              /\ QLeq(solverOut.probs[f], ValueBound(solverOut.mode, targets))

\* a HIGHEST_SCORE call in which probSuccess computed a value strictly
\* between 1 and the largest points value of the pool
C17_Witness ==
    /\ Solved
    /\ solverOut.mode = HIGHEST_SCORE
    /\ \E k \in DOMAIN callTrace.memo :
          /\ QLess(QInt(1), callTrace.memo[k])
          /\ QLess(callTrace.memo[k], QInt(MaxPoints(targets)))
    /\ \E f \in DOMAIN solverOut.probs : QLess(QInt(0), solverOut.probs[f])

\* the faces of probs whose value is within 0.001 of the value of bestFace
TiedForBest(out) ==
    IF out.bestFace = NoFace THEN {}
    ELSE {f \in DOMAIN out.probs :
            withinTolerance(out.probs[f], out.probs[out.bestFace])}

\* the sequence q lists the set S in ascending order, each face once
ListsAscending(q, S) ==
    /\ {q[i] : i \in DOMAIN q} = S
    /\ \A i, j \in DOMAIN q : i < j => q[i] < q[j]

\* C18 (solveMultiMode): anyTile and highestScore are the results of solve
\* in the two modes, each as a call of its own; bestTiles.anyTile and
\* bestTiles.highestScore list the legal faces whose value in the mode is
\* within 0.001 of the value of the mode's bestFace, so each holds its
\* bestFace and is empty exactly when no face is legal; bestTiles.combined
\* lists the union of the two in ascending order, each face once.
C18_SolveMultiMode ==
    Returned("solveMultiMode") =>
        /\ fnOut.anyTile =
              solve(<<1>>, fnArgs.rolls, fnArgs.targets, fnArgs.usedCounts, ANY_TILE).out
        /\ fnOut.highestScore =
              solve(<<1>>, fnArgs.rolls, fnArgs.targets, fnArgs.usedCounts, HIGHEST_SCORE).out
        /\ ListsAscending(fnOut.bestTiles.anyTile, TiedForBest(fnOut.anyTile))
        /\ ListsAscending(fnOut.bestTiles.highestScore, TiedForBest(fnOut.highestScore))
        /\ TiedForBest(fnOut.anyTile) \subseteq LegalOf(fnArgs.rolls, fnArgs.usedCounts)
        /\ TiedForBest(fnOut.highestScore) \subseteq LegalOf(fnArgs.rolls, fnArgs.usedCounts)
        /\ fnOut.anyTile.bestFace # NoFace =>
              fnOut.anyTile.bestFace \in TiedForBest(fnOut.anyTile)
        /\ fnOut.highestScore.bestFace # NoFace =>
              fnOut.highestScore.bestFace \in TiedForBest(fnOut.highestScore)
        /\ (fnOut.bestTiles.anyTile = <<>>) <=> (LegalOf(fnArgs.rolls, fnArgs.usedCounts) = {})
        /\ (fnOut.bestTiles.highestScore = <<>>)
              <=> (LegalOf(fnArgs.rolls, fnArgs.usedCounts) = {})
        /\ ListsAscending(fnOut.bestTiles.combined,
                          TiedForBest(fnOut.anyTile) \cup TiedForBest(fnOut.highestScore))

\* two faces tie in ANY_TILE mode and one of them is best alone in
\* HIGHEST_SCORE mode
C18_Witness ==
    /\ Returned("solveMultiMode")
    /\ Len(fnOut.bestTiles.anyTile) = 2
    /\ Len(fnOut.bestTiles.highestScore) = 1
    /\ fnOut.bestTiles.highestScore[1] = fnOut.bestTiles.anyTile[2]
    /\ Len(fnOut.bestTiles.combined) = 2

\* the points a face counts for: 5 for the worm, its number otherwise
RefFaceValue(g) == IF g = WormFace THEN 5 ELSE g

\* the score and the number of the dice banked in usedCounts
RefBankedScore == RefSum([g \in DOMAIN usedCounts |-> RefFaceValue(g) * usedCounts[g]])
RefBankedDice == RefSum(usedCounts)

\* C19 (per-face statistics): for every legal face f of the roll,
\* choices[f].count is the number of dice showing f, choices[f].immediateScore
\* is the banked score plus the points of f times count, and
\* choices[f].remainingDice is 8 minus the banked dice minus count, a number
\* from 0 to 7.
C19_ChoiceStatistics ==
    Solved =>
        /\ DOMAIN solverOut.choices = legalNow
        /\ \A f \in legalNow :
              /\ solverOut.choices[f].count = Cardinality({i \in DOMAIN dice : dice[i] = f})
              /\ solverOut.choices[f].immediateScore =
                    RefBankedScore + RefFaceValue(f) * solverOut.choices[f].count
              /\ solverOut.choices[f].remainingDice =
                    TotalDice - RefBankedDice - solverOut.choices[f].count
              /\ solverOut.choices[f].remainingDice \in 0..(TotalDice - 1)

\* two worms and another face lie in the roll of a turn with dice banked
C19_Witness ==
    /\ Solved
    /\ RefBankedDice > 0
    /\ WormFace \in legalNow
    /\ solverOut.choices[WormFace].count = 2
    /\ solverOut.choices[WormFace].immediateScore = RefBankedScore + 10
    /\ \E f \in legalNow : f # WormFace /\ solverOut.choices[f].remainingDice = 2

\* C20 (turn invariant of the App): in every state reached by die edits,
\* acceptPick, finishTurn and loading the page, the number of dice slots is 8
\* minus the dice banked in usedCounts, and the banked dice are at most 8.
C20_TurnInvariant ==
    /\ Len(dice) = TotalDice - RefBankedDice
    /\ RefBankedDice <= TotalDice

\* the calls of probSuccess in progress, and those among them made by
\* probSuccess
RunDepth == Cardinality({i \in DOMAIN fnOut.stack : fnOut.stack[i].fn = "probSuccess"})
RecursiveCalls == {i \in 2..Len(fnOut.stack) : fnOut.stack[i - 1].fn = "probSuccess"}

\* C21 (termination): every call of solve returns; each call of probSuccess
\* made by probSuccess has strictly fewer dice remaining than its caller and
\* exactly one more used face, and at no time are more than 8, nor more than
\* 6, calls of probSuccess in progress, whatever the roll, the used record,
\* the pool and the mode.
C21_Termination ==
    /\ [](\A i \in RecursiveCalls :
             /\ fnOut.stack[i].remainingDice < fnOut.stack[i - 1].remainingDice
             /\ fnOut.stack[i - 1].usedMask \subseteq fnOut.stack[i].usedMask
             /\ Cardinality(fnOut.stack[i].usedMask)
                  = Cardinality(fnOut.stack[i - 1].usedMask) + 1)
    /\ [](RunDepth <= TotalDice /\ RunDepth <= NumFaces)
    /\ <>(fnOut.stack = <<>>)

\* a call at the start of a turn with six calls of probSuccess in progress,
\* the innermost with all six faces used
C21_Witness ==
    /\ ValidInput(fnArgs.rolls, fnArgs.usedCounts)
    /\ RunDepth = NumFaces
    /\ RecursiveCalls # {}
    /\ fnOut.stack[Len(fnOut.stack)].usedMask = Faces

\* the least points value of a pool that is not empty
MinPoints(tgts) ==
    CHOOSE x \in {tgts[i].pts : i \in DOMAIN tgts} : \A i \in DOMAIN tgts : x <= tgts[i].pts

\* P and EV are the ANY_TILE and the HIGHEST_SCORE value of one state
ModeRelation(P, EV, tgts) ==
    IF tgts = <<>> THEN ~QLess(QInt(0), EV) /\ ~QLess(QInt(0), P)
    ELSE /\ QLeq(QMul(QInt(MinPoints(tgts)), P), EV)
         /\ QLeq(EV, QMul(QInt(MaxPoints(tgts)), P))
         /\ MinPoints(tgts) >= 1 => (QLess(QInt(0), EV) <=> QLess(QInt(0), P))

\* the ANY_TILE value of the state of a memo key
AnyTileValue(k) ==
    ValueOf([mode |-> ANY_TILE, targets |-> targets, remainingDice |-> k[1], score |-> k[2],
             usedMask |-> k[3]])

\* what solve returns in ANY_TILE mode on the state as it is
AnyTileSolve == solve(<<1>>, roll(dice), targets, usedCounts, ANY_TILE).out

\* C22 (relation between the modes): on a pool whose points lie between pmin
\* and pmax, the HIGHEST_SCORE value EV and the ANY_TILE value P of every
\* state satisfy pmin * P <= EV <= pmax * P; when every tile has at least one
\* point, EV > 0 exactly when P > 0, and the successProb of a HIGHEST_SCORE
\* result is 1 exactly for the faces whose ANY_TILE value is positive.
C22_ModeRelation ==
    (Solved /\ solverOut.mode = HIGHEST_SCORE) =>
        /\ \A k \in DOMAIN callTrace.memo :
              ModeRelation(AnyTileValue(k), callTrace.memo[k], targets)
        /\ \A f \in DOMAIN solverOut.probs :
              /\ f \in DOMAIN AnyTileSolve.probs
              /\ ModeRelation(AnyTileSolve.probs[f], solverOut.probs[f], targets)
              /\ (targets # <<>> /\ MinPoints(targets) >= 1) =>
                    solverOut.choices[f].successProb
                      = (IF QLess(QInt(0), AnyTileSolve.probs[f]) THEN QInt(1) ELSE QInt(0))

\* a HIGHEST_SCORE call on a pool of unequal points in which probSuccess
\* valued a state whose ANY_TILE value P is strictly between 0 and 1 and
\* whose value is strictly between pmin * P and pmax * P
C22_Witness ==
    /\ Solved
    /\ solverOut.mode = HIGHEST_SCORE
    /\ targets # <<>>
    /\ \E k \in DOMAIN callTrace.memo :
          /\ QLess(QInt(0), AnyTileValue(k))
          /\ QLess(AnyTileValue(k), QInt(1))
          /\ QLess(QMul(QInt(MinPoints(targets)), AnyTileValue(k)), callTrace.memo[k])
          /\ QLess(callTrace.memo[k], QMul(QInt(MaxPoints(targets)), AnyTileValue(k)))

====
